---- MODULE Spec2Model ----
(***************************************************************************)
(* The request/response forwarding pipeline of aad-auth-proxy              *)
(* (package handler): NewHandler, ProxyRequest, ReadinessCheck,            *)
(* checkTokenProvider, and the reverse-proxy hooks modifyRequest,          *)
(* handleError, modifyResponse and logResponse.                            *)
(*                                                                         *)
(* One request is followed from its arrival to its completion; the hooks   *)
(* run in the order httputil.ReverseProxy.ServeHTTP calls them.            *)
(***************************************************************************)
EXTENDS Integers, Sequences, FiniteSets, TLC

(***************************************************************************)
(* Bounds of the model.                                                    *)
(***************************************************************************)
\* Longest decoded backend response body, in bytes.
MaxBodyLen == 1
\* Largest number of keys in the configured additional-headers map.
MaxOverrideKeys == 2
\* Largest number of Authorization values on the inbound request.
MaxInboundAuth == 2

(***************************************************************************)
(* Program constants.                                                      *)
(***************************************************************************)
StatusOK == 200
StatusBadRequest == 400
StatusServiceUnavailable == 503

\* error values; NoErr is Go's nil error
NoErr == "nil"
ErrNotInstantiated == "handler, tokenProvider is not instantiated, cannot forward request"
ErrTokenFetch == "token fetch failed"
ErrInstrument == "instrument acquisition failed"
ErrDial == "dial tcp: connection refused"
ErrDecode == "decode failed"
ErrEncode == "encode failed"
Errors == {NoErr, ErrNotInstantiated, ErrTokenFetch, ErrInstrument, ErrDial,
           ErrDecode, ErrEncode}

TagTokenNotFound == "AuthenticationTokenNotFound"

\* the token provider field of Handler: a nil interface or an implementation
NilProvider == "nil"
Provider == "provider"

\* what an implementation of GetAccessToken may answer
Tokens == {"", "t1"}
TokenAnswers == [token : Tokens, err : {NoErr, ErrTokenFetch}]

(***************************************************************************)
(* http.Header: canonical key -> list of values.  Set and Get canonicalise *)
(* the key they are given (textproto.CanonicalMIMEHeaderKey).              *)
(***************************************************************************)
HEADER_AUTHORIZATION == "Authorization"
HeaderScope == "X-Scope-Orgid"
CanonKeys == {HEADER_AUTHORIZATION, HeaderScope}
\* keys as a configuration may spell them
RawKeys == {"Authorization", "X-Scope-OrgID", "x-scope-orgid"}

CanonicalKey(k) ==
    CASE k \in {"Authorization", "authorization"} -> HEADER_AUTHORIZATION
      [] k \in {"X-Scope-OrgID", "x-scope-orgid", "X-Scope-Orgid"} -> HeaderScope

HeaderSet(h, k, v) == [h EXCEPT ![CanonicalKey(k)] = <<v>>]

HeaderGet(h, k) ==
    IF h[CanonicalKey(k)] = <<>> THEN "" ELSE Head(h[CanonicalKey(k)])

(***************************************************************************)
(* strconv.Itoa and strconv.ParseInt(s, 10, 32) on decimal digit strings,  *)
(* a string being the sequence of its digits (<<>> is the empty string).   *)
(***************************************************************************)
RECURSIVE Itoa(_)
Itoa(n) == IF n < 10 THEN <<n>> ELSE Append(Itoa(n \div 10), n % 10)

RECURSIVE DigitsValue(_)
DigitsValue(s) ==
    IF s = <<>> THEN 0
    ELSE 10 * DigitsValue(SubSeq(s, 1, Len(s) - 1)) + s[Len(s)]

\* [err, value]: an empty or non-decimal string is an error, and so is a value
\* beyond 32 bits (taken here as any string of more than nine digits)
ParseInt(s) ==
    IF s = <<>> \/ (\E i \in 1..Len(s) : s[i] \notin 0..9) \/ Len(s) > 9
    THEN [err |-> "parse error", value |-> 0]
    ELSE [err |-> NoErr, value |-> DigitsValue(s)]

(***************************************************************************)
(* Go maps: the nil map and maps from keys to values.  A range over a map  *)
(* visits its keys in an order the runtime picks.                          *)
(***************************************************************************)
\* the value a configuration gives each key it names
OverrideValue(k) ==
    CASE k = "Authorization" -> "Basic override"
      [] k = "X-Scope-OrgID" -> "tenant-a"
      [] k = "x-scope-orgid" -> "tenant-b"
NilMap == [isNil |-> TRUE, m |-> <<>>]
MapOf(f) == [isNil |-> FALSE, m |-> f]
MapLen(mp) == Cardinality(DOMAIN mp.m)

\* what configuration.GetAdditionalHeaders() may return
AdditionalHeaders ==
    {NilMap} \cup
    {MapOf([k \in S |-> OverrideValue(k)]) :
        S \in {T \in SUBSET RawKeys : Cardinality(T) <= MaxOverrideKeys}}

\* the orders in which a range may visit the keys of a map
RangeOrders(mp) ==
    {o \in [1..MapLen(mp) -> DOMAIN mp.m] :
        \A i, j \in 1..MapLen(mp) : i # j => o[i] # o[j]}

(***************************************************************************)
(* The state.                                                              *)
(***************************************************************************)
TargetHost == "backend.example"
ListenHost == "proxy.local"
HTTPS_SCHEME == "https"

NilProxy == "nil"
Proxy == "proxy"
NilConfiguration == [isNil |-> TRUE, additionalHeaders |-> NilMap, targetHost |-> ""]
Configurations ==
    {NilConfiguration} \cup
    {[isNil |-> FALSE, additionalHeaders |-> a, targetHost |-> TargetHost] :
        a \in AdditionalHeaders}

NoHandler ==
    [made |-> "none", targetHost |-> "", proxy |-> NilProxy,
     tokenProvider |-> NilProvider, overrideHeaders |-> NilMap]

EmptyHeader == [k \in CanonKeys |-> <<>>]
NoRequest == [Header |-> EmptyHeader, Host |-> "", URLHost |-> "", URLScheme |-> ""]
NoWriter == [status |-> 0, StatusCode |-> <<>>, ContentLength |-> <<>>,
             ContentEncoding |-> "", tag |-> "", err |-> NoErr, body |-> <<>>]
NoBody == [data |-> <<>>, pos |-> 0]
NoResponse ==
    [StatusCode |-> 0, ContentLength |-> 0,
     Header |-> [StatusCode |-> <<>>, ContentLength |-> <<>>, ContentEncoding |-> ""],
     Body |-> NoBody]
NoMetrics ==
    [requests_total |-> <<>>, request_duration_milliseconds |-> <<>>,
     request_bytes_total |-> 0, response_bytes_total |-> <<>>]
SpanNames == {"ProxyRequest", "ReadinessCheck", "checkTokenProvider",
              "modifyRequest", "handleError", "modifyResponse"}
NoSpans == [n \in SpanNames |-> [started |-> 0, ended |-> 0]]
NoToken == [token |-> "", err |-> NoErr]

VARIABLES
    handler,    \* the Handler, once constructed
    pc,         \* where the request in hand stands
    op,         \* the operation serving it: ProxyRequest or ReadinessCheck
    inbound,    \* the request as the caller sent it
    r,          \* the request ProxyRequest holds and decorates
    outreq,     \* the request handed to the transport
    w,          \* the response writer: what the caller is answered
    backend,    \* the response as the backend sent it
    res,        \* that response after modifyResponse
    provider,   \* what the token provider had to answer when the handler was entered
    token,      \* what GetAccessToken answered to ProxyRequest
    gate,       \* what checkTokenProvider returned
    instruments,\* the instrument acquisitions for the request in hand: <<name, acquired>>
    metrics,    \* the samples recorded for the request in hand
    spans,      \* spans started and ended for the request in hand
    calls,      \* the pipeline's steps for the request in hand, in order
    fault       \* whether the handler ended in a panic

vars == <<handler, pc, op, inbound, r, outreq, w, backend, res, provider, token,
          gate, instruments, metrics, spans, calls, fault>>
reqVars == <<op, inbound, r, outreq, w, backend, res, provider, token, gate,
             instruments, metrics, spans, calls, fault>>

NoGate == [err |-> NoErr, fault |-> FALSE, asked |-> FALSE, span |-> FALSE]

Init ==
    /\ handler = NoHandler
    /\ pc = "new"
    /\ op = "none"
    /\ inbound = NoRequest
    /\ r = NoRequest
    /\ outreq = NoRequest
    /\ w = NoWriter
    /\ backend = NoResponse
    /\ res = NoResponse
    /\ provider = NoToken
    /\ token = NoToken
    /\ gate = NoGate
    /\ instruments = <<>>
    /\ metrics = NoMetrics
    /\ spans = NoSpans
    /\ calls = <<>>
    /\ fault = FALSE

(***************************************************************************)
(* NewHandler: rejects a nil proxy, token provider or configuration; keeps *)
(* the additional headers only when the map is non-nil and non-empty.      *)
(***************************************************************************)
NewHandlerResult(proxy, tokenProvider, configuration) ==
    IF proxy = NilProxy THEN [err |-> "proxy cannot be nil", h |-> NoHandler]
    ELSE IF tokenProvider = NilProvider
    THEN [err |-> "tokenProvider cannot be nil", h |-> NoHandler]
    ELSE IF configuration.isNil
    THEN [err |-> "configuration cannot be nil", h |-> NoHandler]
    ELSE LET additionalheaders == configuration.additionalHeaders
             overrideHeaders ==
                 IF ~additionalheaders.isNil /\ MapLen(additionalheaders) > 0
                 THEN additionalheaders ELSE NilMap
         IN  [err |-> NoErr,
              h |-> [made |-> "NewHandler", targetHost |-> configuration.targetHost,
                     proxy |-> proxy, tokenProvider |-> tokenProvider,
                     overrideHeaders |-> overrideHeaders]]

NewHandler ==
    /\ pc = "new"
    /\ \E proxy \in {NilProxy, Proxy}, tokenProvider \in {NilProvider, Provider},
          configuration \in Configurations :
          LET got == NewHandlerResult(proxy, tokenProvider, configuration) IN
          /\ handler' = got.h
          /\ pc' = IF got.err = NoErr THEN "idle" ELSE "new"
    /\ UNCHANGED reqVars

\* A Handler value built inside the package as a struct literal, its token
\* provider left nil: the state checkTokenProvider tests for.
HandlerLiteral ==
    /\ pc = "new"
    /\ \E a \in AdditionalHeaders :
          handler' = [made |-> "literal", targetHost |-> TargetHost, proxy |-> Proxy,
                      tokenProvider |-> NilProvider,
                      overrideHeaders |-> IF ~a.isNil /\ MapLen(a) > 0 THEN a ELSE NilMap]
    /\ pc' = "idle"
    /\ UNCHANGED reqVars

(***************************************************************************)
(* Telemetry: a span is started and ended; a sample is recorded unless the *)
(* instrument could not be acquired (the err == nil tests).                *)
(***************************************************************************)
\* a span whose End is never reached
EndSpan_Skipped(sp, n) == sp

StartSpan(sp, n) == [sp EXCEPT ![n].started = @ + 1]
EndSpan(sp, n) == [sp EXCEPT ![n].ended = @ + 1]

AddSample(samples, acquired, s) == IF acquired THEN Append(samples, s) ELSE samples

METRIC_REQUESTS_TOTAL == "requests_total"
METRIC_REQUEST_DURATION_MILLISECONDS == "request_duration_milliseconds"
METRIC_REQUEST_BYTES_TOTAL == "request_bytes_total"
METRIC_RESPONSE_BYTES_TOTAL == "response_bytes_total"

Acquire(ins, name, acquired) == Append(ins, <<name, acquired>>)

(***************************************************************************)
(* FailRequest: the uniform failure response: the status given, and a body *)
(* made of the error-kind tag and the error handed in.                     *)
(***************************************************************************)
FailRequest(rw, statusCode, errorCode, err) ==
    [rw EXCEPT !.status = statusCode, !.tag = errorCode, !.err = err]

(***************************************************************************)
(* ITokenProvider.GetAccessToken.  A method call on a nil interface value  *)
(* is a runtime panic; an implementation answers (token, err).             *)
(***************************************************************************)
GetAccessToken(tokenProvider, answer) ==
    IF tokenProvider = NilProvider
    THEN [fault |-> TRUE, token |-> "", err |-> NoErr]
    ELSE [fault |-> FALSE, token |-> answer.token, err |-> answer.err]

\* checkTokenProvider asking the provider that is there
checkTokenProvider_AsksProvider(tokenProvider, answer) ==
    IF tokenProvider # NilProvider
    THEN LET got == GetAccessToken(tokenProvider, answer) IN
         IF Len(got.token) = 0 \/ got.err # NoErr
         THEN [err |-> IF got.err = NoErr THEN ErrNotInstantiated ELSE got.err,
               fault |-> FALSE, asked |-> TRUE, span |-> TRUE]
         ELSE [err |-> NoErr, fault |-> FALSE, asked |-> TRUE, span |-> FALSE]
    ELSE [err |-> NoErr, fault |-> FALSE, asked |-> FALSE, span |-> FALSE]

(***************************************************************************)
(* checkTokenProvider.  The result: the error returned, whether the call   *)
(* panicked, whether GetAccessToken was called, whether the                *)
(* checkTokenProvider span was opened (and closed).                        *)
(***************************************************************************)
checkTokenProvider(tokenProvider, answer) ==
    IF tokenProvider = NilProvider
    THEN LET got == GetAccessToken(tokenProvider, answer) IN
         IF got.fault
         THEN [err |-> NoErr, fault |-> TRUE, asked |-> TRUE, span |-> FALSE]
         ELSE IF Len(got.token) = 0 \/ got.err # NoErr
         THEN [err |-> IF got.err = NoErr THEN ErrNotInstantiated ELSE got.err,
               fault |-> FALSE, asked |-> TRUE, span |-> TRUE]
         ELSE [err |-> NoErr, fault |-> FALSE, asked |-> TRUE, span |-> FALSE]
    ELSE [err |-> NoErr, fault |-> FALSE, asked |-> FALSE, span |-> FALSE]

GateSpans(sp, g) ==
    IF g.span THEN EndSpan(StartSpan(sp, "checkTokenProvider"), "checkTokenProvider")
    ELSE sp

GateCalls(g) ==
    <<"checkTokenProvider">> \o (IF g.asked THEN <<"GetAccessToken">> ELSE <<>>)

(***************************************************************************)
(* The requests a caller may send.                                         *)
(***************************************************************************)
InboundAuthorization(n) ==
    [i \in 1..n |-> IF i = 1 THEN "Basic dXNlcg==" ELSE "Bearer stale"]

InboundRequests ==
    {[Header |-> [k \in CanonKeys |->
                    IF k = HEADER_AUTHORIZATION THEN InboundAuthorization(n) ELSE scope],
      Host |-> ListenHost, URLHost |-> "", URLScheme |-> ""] :
        n \in 0..MaxInboundAuth, scope \in {<<>>, <<"tenant-in">>}}

(***************************************************************************)
(* ProxyRequest, from its entry to the call of proxy.ServeHTTP.            *)
(***************************************************************************)
\* ApplyOverrides with a header the caller sent left as it came
RECURSIVE ApplyOverrides_KeepInbound(_, _, _)
ApplyOverrides_KeepInbound(h, mp, order) ==
    IF order = <<>> THEN h
    ELSE ApplyOverrides_KeepInbound(
             IF h[CanonicalKey(Head(order))] = <<>>
             THEN HeaderSet(h, Head(order), mp.m[Head(order)]) ELSE h,
             mp, Tail(order))

\* the override loop: r.Header.Set(key, value) for the keys in range order
RECURSIVE ApplyOverrides(_, _, _)
ApplyOverrides(h, mp, order) ==
    IF order = <<>> THEN h
    ELSE ApplyOverrides(HeaderSet(h, Head(order), mp.m[Head(order)]), mp, Tail(order))

\* Decorate with the bearer credential added (Header.Add) where it is to be set
Decorate_AddAuthorization(h, tok, overrideHeaders, order) ==
    LET withAuth == [h EXCEPT ![HEADER_AUTHORIZATION] = Append(@, "Bearer " \o tok)] IN
    IF ~overrideHeaders.isNil THEN ApplyOverrides(withAuth, overrideHeaders, order)
    ELSE withAuth

\* lines 101-110: the bearer credential, then the additional headers
Decorate(h, tok, overrideHeaders, order) ==
    LET withAuth == HeaderSet(h, HEADER_AUTHORIZATION, "Bearer " \o tok) IN
    IF ~overrideHeaders.isNil THEN ApplyOverrides(withAuth, overrideHeaders, order)
    ELSE withAuth

ProxyRequest ==
    /\ pc = "idle"
    /\ \E in \in InboundRequests, gateAnswer \in TokenAnswers, answer \in TokenAnswers,
          counterAcquired \in BOOLEAN, order \in RangeOrders(handler.overrideHeaders) :
       \E g \in {checkTokenProvider(handler.tokenProvider, gateAnswer)} :
          LET sp == GateSpans(StartSpan(NoSpans, "ProxyRequest"), g) IN
          /\ op' = "ProxyRequest"
          /\ inbound' = in
          /\ provider' = IF handler.tokenProvider = NilProvider THEN NoToken
                          ELSE gateAnswer
          /\ gate' = g
          /\ outreq' = NoRequest
          /\ backend' = NoResponse
          /\ res' = NoResponse
          /\ IF g.fault
             THEN \* the panic unwinds through the deferred span.End()
                  /\ pc' = "done"
                  /\ fault' = TRUE
                  /\ r' = in
                  /\ w' = NoWriter
                  /\ token' = NoToken
                  /\ instruments' = <<>>
                  /\ metrics' = NoMetrics
                  /\ spans' = EndSpan(sp, "ProxyRequest")
                  /\ calls' = GateCalls(g)
             ELSE IF g.err # NoErr
             THEN \* lines 78-99; err at line 97 is the one line 91 declares
                  LET err == IF counterAcquired THEN NoErr ELSE ErrInstrument IN
                  /\ pc' = "done"
                  /\ fault' = FALSE
                  /\ r' = in
                  /\ token' = NoToken
                  /\ instruments' = Acquire(<<>>, METRIC_REQUESTS_TOTAL, counterAcquired)
                  /\ metrics' = [NoMetrics EXCEPT !.requests_total =
                        AddSample(@, counterAcquired, StatusServiceUnavailable)]
                  /\ w' = FailRequest(NoWriter, StatusServiceUnavailable,
                                      TagTokenNotFound, err)
                  /\ spans' = EndSpan(sp, "ProxyRequest")
                  /\ calls' = GateCalls(g) \o <<"FailRequest">>
             ELSE LET got == GetAccessToken(handler.tokenProvider, answer) IN
                  /\ pc' = "serving"
                  /\ fault' = FALSE
                  /\ token' = [token |-> got.token, err |-> got.err]
                  /\ r' = [in EXCEPT !.Header =
                             Decorate(@, got.token, handler.overrideHeaders, order)]
                  /\ w' = NoWriter
                  /\ instruments' = <<>>
                  /\ metrics' = NoMetrics
                  /\ spans' = sp
                  /\ calls' = GateCalls(g) \o <<"GetAccessToken", "ServeHTTP">>
    /\ UNCHANGED handler

(***************************************************************************)
(* ReadinessCheck.                                                         *)
(***************************************************************************)
ReadinessCheck ==
    /\ pc = "idle"
    /\ \E in \in InboundRequests, gateAnswer \in TokenAnswers :
       \E g \in {checkTokenProvider(handler.tokenProvider, gateAnswer)} :
          LET sp == GateSpans(StartSpan(NoSpans, "ReadinessCheck"), g) IN
          /\ op' = "ReadinessCheck"
          /\ provider' = IF handler.tokenProvider = NilProvider THEN NoToken
                          ELSE gateAnswer
          /\ pc' = "done"
          /\ inbound' = in
          /\ r' = in
          /\ gate' = g
          /\ fault' = g.fault
          /\ w' = IF g.fault THEN NoWriter
                  ELSE IF g.err # NoErr
                  THEN FailRequest(NoWriter, StatusServiceUnavailable,
                                   TagTokenNotFound, g.err)
                  ELSE [NoWriter EXCEPT !.status = StatusOK]
          /\ spans' = EndSpan(sp, "ReadinessCheck")
          /\ calls' = GateCalls(g) \o
                      (IF ~g.fault /\ g.err # NoErr THEN <<"FailRequest">> ELSE <<>>)
    /\ outreq' = NoRequest
    /\ backend' = NoResponse
    /\ res' = NoResponse
    /\ token' = NoToken
    /\ instruments' = <<>>
    /\ metrics' = NoMetrics
    /\ UNCHANGED handler

(***************************************************************************)
(* modifyRequest, the Director: scheme and host become the target's, and a *)
(* request_bytes_total sample is recorded.  Headers are left alone.        *)
(***************************************************************************)
modifyRequest(request, targetHost) ==
    [request EXCEPT !.URLScheme = HTTPS_SCHEME, !.URLHost = targetHost,
                    !.Host = targetHost]

\* ServeHTTP clones the request it is given and calls the Director on the clone.
Director ==
    /\ pc = "serving"
    /\ \E acquired \in BOOLEAN :
          /\ instruments' = Acquire(instruments, METRIC_REQUEST_BYTES_TOTAL, acquired)
          /\ metrics' = [metrics EXCEPT !.request_bytes_total =
                            IF acquired THEN @ + 1 ELSE @]
    /\ outreq' = modifyRequest(r, handler.targetHost)
    /\ spans' = EndSpan(StartSpan(spans, "modifyRequest"), "modifyRequest")
    /\ calls' = Append(calls, "modifyRequest")
    /\ pc' = "dispatched"
    /\ UNCHANGED <<handler, op, inbound, r, w, backend, res, provider, token, gate,
                   fault>>

(***************************************************************************)
(* The body codec (utils.EncoderDecoder).  A gzip stream is a magic byte,  *)
(* framing that depends on the compressor's settings, and the content;     *)
(* Decode reads the body it is given, Encode writes a fresh buffer.        *)
(***************************************************************************)
ContentBytes == {0}
GzipMagic == <<31>>
Framing(level) == [i \in 1..level |-> 8]
Gzip(level, content) == GzipMagic \o Framing(level) \o content
IsGzip(data) == data # <<>> /\ data[1] = 31

RECURSIVE StripFraming(_)
StripFraming(data) ==
    IF data # <<>> /\ Head(data) = 8 THEN StripFraming(Tail(data)) ELSE data

Gunzip(data) == StripFraming(Tail(data))

Remaining(body) == SubSeq(body.data, body.pos + 1, Len(body.data))

\* consumed: how far a failing decoder had read when it gave up
Decode(encoding, body, consumed) ==
    IF encoding = "gzip" /\ ~IsGzip(Remaining(body))
    THEN [err |-> ErrDecode, bytes |-> <<>>,
          body |-> [body EXCEPT !.pos = consumed]]
    ELSE [err |-> NoErr,
          bytes |-> IF encoding = "gzip" THEN Gunzip(Remaining(body))
                    ELSE Remaining(body),
          body |-> [body EXCEPT !.pos = Len(body.data)]]

Encode(encoding, bytes, ok) ==
    IF ~ok THEN [err |-> ErrEncode, buffer |-> <<>>]
    ELSE [err |-> NoErr,
          buffer |-> IF encoding = "gzip" THEN Gzip(1, bytes) ELSE bytes]

(***************************************************************************)
(* logResponse: decode and log the body, put a re-encoded body back.       *)
(***************************************************************************)
\* logResponse putting the body back with the Content-Length left as it was
logResponse_StaleLength(response, consumed, encodeOk) ==
    LET encoding == response.Header.ContentEncoding
        dec == Decode(encoding, response.Body, consumed)
        read == [response EXCEPT !.Body = dec.body]
        enc == Encode(encoding, dec.bytes, encodeOk)
    IN  IF dec.err # NoErr
        THEN [response |-> read, log |-> <<"Failed to decode response body">>]
        ELSE IF enc.err # NoErr
        THEN [response |-> read,
              log |-> <<"Error response body: ", "Failed to encode response body">>]
        ELSE [response |-> [read EXCEPT !.Body = [data |-> enc.buffer, pos |-> 0]],
              log |-> <<"Error response body: ">>]

LogDecodeFailed == "Failed to decode response body"
LogEncodeFailed == "Failed to encode response body"
LogErrorBody == "Error response body: "

\* [response, log]: the response as logResponse leaves it, and the lines logged
logResponse(response, consumed, encodeOk) ==
    LET encoding == response.Header.ContentEncoding
        dec == Decode(encoding, response.Body, consumed)
        read == [response EXCEPT !.Body = dec.body]
        enc == Encode(encoding, dec.bytes, encodeOk)
    IN  IF dec.err # NoErr THEN [response |-> read, log |-> <<LogDecodeFailed>>]
        ELSE IF enc.err # NoErr
        THEN [response |-> read, log |-> <<LogErrorBody, LogEncodeFailed>>]
        ELSE [response |->
                [read EXCEPT !.Body = [data |-> enc.buffer, pos |-> 0],
                             !.ContentLength = Len(enc.buffer),
                             !.Header.ContentLength = Itoa(Len(enc.buffer)),
                             !.Header.ContentEncoding = encoding],
              log |-> <<LogErrorBody>>]

(***************************************************************************)
(* The hooks work on the writer, the samples, the spans and the steps.     *)
(***************************************************************************)
Hooked == [w |-> w, instruments |-> instruments, metrics |-> metrics,
           spans |-> spans, calls |-> calls]

\* handleError giving up, the caller unanswered, when the counter is not acquired
handleError_AbortsUnacquired(st, response_err, counterAcquired) ==
    LET parsed == ParseInt(st.w.StatusCode)
        status_code == IF parsed.err # NoErr THEN StatusServiceUnavailable
                       ELSE parsed.value
    IN  [w |-> IF counterAcquired
               THEN FailRequest(st.w, status_code, response_err, response_err)
               ELSE st.w,
         instruments |-> Acquire(st.instruments, METRIC_REQUESTS_TOTAL, counterAcquired),
         metrics |-> [st.metrics EXCEPT !.requests_total =
                          AddSample(@, counterAcquired, status_code)],
         spans |-> EndSpan(StartSpan(st.spans, "handleError"), "handleError"),
         calls |-> st.calls \o <<"handleError", "FailRequest">>]

\* handleError tagging its answer like the gate-failure path does
handleError_GateTag(st, response_err, counterAcquired) ==
    LET parsed == ParseInt(st.w.StatusCode)
        status_code == IF parsed.err # NoErr THEN StatusServiceUnavailable
                       ELSE parsed.value
    IN  [w |-> FailRequest(st.w, status_code, TagTokenNotFound, response_err),
         instruments |-> Acquire(st.instruments, METRIC_REQUESTS_TOTAL, counterAcquired),
         metrics |-> [st.metrics EXCEPT !.requests_total =
                          AddSample(@, counterAcquired, status_code)],
         spans |-> EndSpan(StartSpan(st.spans, "handleError"), "handleError"),
         calls |-> st.calls \o <<"handleError", "FailRequest">>]

\* handleError answering 503 whatever the Status-Code header holds
handleError_Always503(st, response_err, counterAcquired) ==
    [w |-> FailRequest(st.w, StatusServiceUnavailable, response_err, response_err),
     instruments |-> Acquire(st.instruments, METRIC_REQUESTS_TOTAL, counterAcquired),
     metrics |-> [st.metrics EXCEPT !.requests_total =
                      AddSample(@, counterAcquired, StatusServiceUnavailable)],
     spans |-> EndSpan(StartSpan(st.spans, "handleError"), "handleError"),
     calls |-> st.calls \o <<"handleError", "FailRequest">>]

\* handleError without its requests_total sample
handleError_Unrecorded(st, response_err, counterAcquired) ==
    [w |-> FailRequest(st.w, StatusServiceUnavailable, response_err, response_err),
     instruments |-> st.instruments,
     metrics |-> st.metrics,
     spans |-> EndSpan(StartSpan(st.spans, "handleError"), "handleError"),
     calls |-> st.calls \o <<"handleError", "FailRequest">>]

\* handleError, the ErrorHandler
handleError(st, response_err, counterAcquired) ==
    LET parsed == ParseInt(st.w.StatusCode)
        status_code == IF parsed.err # NoErr THEN StatusServiceUnavailable
                       ELSE parsed.value
    IN  [w |-> FailRequest(st.w, status_code, response_err, response_err),
         instruments |-> Acquire(st.instruments, METRIC_REQUESTS_TOTAL, counterAcquired),
         metrics |-> [st.metrics EXCEPT !.requests_total =
                          AddSample(@, counterAcquired, status_code)],
         spans |-> EndSpan(StartSpan(st.spans, "handleError"), "handleError"),
         calls |-> st.calls \o <<"handleError", "FailRequest">>]

\* modifyResponse returning the error it builds for a status >= 400
modifyResponse_ReturnsErr(response, st, counterAcquired, bytesAcquired, consumed, encodeOk) ==
    LET signalled == [response EXCEPT !.Header.StatusCode = Itoa(response.StatusCode)]
        failed == response.StatusCode >= StatusBadRequest
        logged == logResponse(signalled, consumed, encodeOk)
    IN  [err |-> IF failed THEN "Non 2xx response from target host" ELSE NoErr,
         response |-> IF failed THEN logged.response ELSE signalled,
         st |-> [w |-> st.w,
                 instruments |->
                     Acquire(Acquire(st.instruments, METRIC_REQUESTS_TOTAL,
                                     counterAcquired),
                             METRIC_RESPONSE_BYTES_TOTAL, bytesAcquired),
                 metrics |-> [st.metrics EXCEPT
                     !.requests_total =
                         AddSample(@, counterAcquired, response.StatusCode),
                     !.response_bytes_total =
                         AddSample(@, bytesAcquired, response.ContentLength)],
                 spans |-> EndSpan(StartSpan(st.spans, "modifyResponse"),
                                   "modifyResponse"),
                 calls |-> st.calls \o <<"modifyResponse">>]]

\* modifyResponse, the ModifyResponse hook: [err, response, st]
modifyResponse(response, st, counterAcquired, bytesAcquired, consumed, encodeOk) ==
    LET signalled == [response EXCEPT !.Header.StatusCode = Itoa(response.StatusCode)]
        failed == response.StatusCode >= StatusBadRequest
        logged == logResponse(signalled, consumed, encodeOk)
    IN  [err |-> NoErr,
         response |-> IF failed THEN logged.response ELSE signalled,
         st |-> [w |-> st.w,
                 instruments |->
                     Acquire(Acquire(st.instruments, METRIC_REQUESTS_TOTAL,
                                     counterAcquired),
                             METRIC_RESPONSE_BYTES_TOTAL, bytesAcquired),
                 metrics |-> [st.metrics EXCEPT
                     !.requests_total =
                         AddSample(@, counterAcquired, response.StatusCode),
                     !.response_bytes_total =
                         AddSample(@, bytesAcquired, response.ContentLength)],
                 spans |-> EndSpan(StartSpan(st.spans, "modifyResponse"),
                                   "modifyResponse"),
                 calls |-> st.calls \o <<"modifyResponse">> \o
                           (IF failed THEN <<"logResponse">> \o logged.log
                            ELSE <<>>)]]

(***************************************************************************)
(* What the backend may answer.                                            *)
(***************************************************************************)
BackendStatuses == {200, 404, 500}
Contents == UNION {[1..n -> ContentBytes] : n \in 0..MaxBodyLen}
\* well-formed gzip streams, and bodies that are no gzip stream
WireBodies == {Gzip(level, c) : level \in 1..2, c \in Contents} \cup Contents

BackendResponses ==
    {[StatusCode |-> s, ContentLength |-> Len(d),
      Header |-> [StatusCode |-> <<>>, ContentLength |-> Itoa(Len(d)),
                  ContentEncoding |-> e],
      Body |-> [data |-> d, pos |-> 0]] :
        s \in BackendStatuses, e \in {"", "gzip"}, d \in WireBodies}

\* The hooks that handle the response read no request header, so the whole
\* range of responses is explored for the undecorated request of a handler
\* without override headers, and one plain response for every other request.
ResponsesFor(h, in) ==
    IF h.overrideHeaders.isNil /\ in.Header = EmptyHeader
    THEN BackendResponses
    ELSE {x \in BackendResponses :
            x.StatusCode = StatusOK /\ x.Header.ContentEncoding = ""
            /\ x.Body.data = <<>>}

(***************************************************************************)
(* proxy.ServeHTTP after the Director: the transport's RoundTrip either    *)
(* fails, and the ErrorHandler answers, or yields a response, which goes   *)
(* through ModifyResponse (the ErrorHandler answers if that returns an     *)
(* error) and is then copied to the caller: headers, status, body.  A      *)
(* failing body copy ends the handler in a panic (http.ErrAbortHandler).   *)
(***************************************************************************)
RoundTripError ==
    /\ pc = "dispatched"
    /\ \E counterAcquired \in BOOLEAN :
       \E st \in {handleError(Hooked, ErrDial, counterAcquired)} :
          /\ w' = st.w
          /\ instruments' = st.instruments
          /\ metrics' = st.metrics
          /\ spans' = st.spans
          /\ calls' = st.calls
    /\ pc' = "returned"
    /\ UNCHANGED <<handler, op, inbound, r, outreq, backend, res, provider, token, gate,
                   fault>>

RoundTripResponse ==
    /\ pc = "dispatched"
    /\ \E response \in ResponsesFor(handler, inbound), counterAcquired \in BOOLEAN,
          bytesAcquired \in BOOLEAN, errorCounterAcquired \in BOOLEAN,
          encodeOk \in BOOLEAN, copied \in BOOLEAN :
       \E consumed \in 0..Len(response.Body.data) :
       \E got \in {modifyResponse(response, Hooked, counterAcquired, bytesAcquired,
                                  consumed, encodeOk)} :
       \E st \in {IF got.err # NoErr
                  THEN handleError(got.st, got.err, errorCounterAcquired)
                  ELSE [got.st EXCEPT
                          !.w.StatusCode = got.response.Header.StatusCode,
                          !.w.ContentLength = got.response.Header.ContentLength,
                          !.w.ContentEncoding = got.response.Header.ContentEncoding,
                          !.w.status = got.response.StatusCode,
                          !.w.body = Remaining(got.response.Body)]} :
          /\ backend' = response
          /\ res' = got.response
          /\ w' = st.w
          /\ instruments' = st.instruments
          /\ metrics' = st.metrics
          /\ spans' = st.spans
          /\ calls' = st.calls
          /\ fault' = (got.err = NoErr /\ ~copied)
    /\ pc' = "returned"
    /\ UNCHANGED <<handler, op, inbound, r, outreq, provider, token, gate>>

(***************************************************************************)
(* ProxyRequest's deferred functions, run when ServeHTTP returns or        *)
(* panics: the duration sample, then span.End().                           *)
(***************************************************************************)
DurationStatus(rw) ==
    LET parsed == ParseInt(rw.StatusCode) IN
    IF parsed.err # NoErr THEN 0 ELSE parsed.value

\* the duration step as a statement after ServeHTTP: a panic skips it
ProxyRequestReturn_AfterServe ==
    /\ pc = "returned"
    /\ \E histogramAcquired \in BOOLEAN :
          /\ instruments' = IF fault THEN instruments
                            ELSE Acquire(instruments,
                                         METRIC_REQUEST_DURATION_MILLISECONDS,
                                         histogramAcquired)
          /\ metrics' = [metrics EXCEPT !.request_duration_milliseconds =
                            AddSample(@, histogramAcquired /\ ~fault, DurationStatus(w))]
    /\ spans' = EndSpan(spans, "ProxyRequest")
    /\ calls' = Append(calls, "deferred")
    /\ pc' = "done"
    /\ UNCHANGED <<handler, op, inbound, r, outreq, w, backend, res, provider, token,
                   gate, fault>>

ProxyRequestReturn ==
    /\ pc = "returned"
    /\ \E histogramAcquired \in BOOLEAN :
          /\ instruments' = Acquire(instruments, METRIC_REQUEST_DURATION_MILLISECONDS,
                                    histogramAcquired)
          /\ metrics' = [metrics EXCEPT !.request_duration_milliseconds =
                            AddSample(@, histogramAcquired, DurationStatus(w))]
    /\ spans' = EndSpan(spans, "ProxyRequest")
    /\ calls' = Append(calls, "deferred")
    /\ pc' = "done"
    /\ UNCHANGED <<handler, op, inbound, r, outreq, w, backend, res, provider, token,
                   gate, fault>>

Next ==
    \/ NewHandler
    \/ HandlerLiteral
    \/ ProxyRequest
    \/ ReadinessCheck
    \/ Director
    \/ RoundTripError
    \/ RoundTripResponse
    \/ ProxyRequestReturn

Spec == Init /\ [][Next]_vars

(***************************************************************************)
(* handleError on its own: the ErrorHandler called on a response writer    *)
(* whose headers may already hold a Status-Code value.  A character of the *)
(* value is a digit, or 10 for one that is no digit.                       *)
(***************************************************************************)
StatusCodeTexts ==
    {<<>>} \cup
    {<<a, b, c>> : a \in {3, 4, 5}, b \in {0, 2, 3, 10}, c \in {0, 2, 3, 10}}

InitHandleError ==
    /\ handler = [made |-> "NewHandler", targetHost |-> TargetHost, proxy |-> Proxy,
                  tokenProvider |-> Provider, overrideHeaders |-> NilMap]
    /\ pc = "dispatched"
    /\ op = "ProxyRequest"
    /\ inbound \in {x \in InboundRequests : x.Header = EmptyHeader}
    /\ r = [inbound EXCEPT !.Header =
               Decorate(@, "t1", handler.overrideHeaders, <<>>)]
    /\ outreq = modifyRequest(r, handler.targetHost)
    /\ \E text \in StatusCodeTexts : w = [NoWriter EXCEPT !.StatusCode = text]
    /\ backend = NoResponse
    /\ res = NoResponse
    /\ provider = [token |-> "t1", err |-> NoErr]
    /\ token = [token |-> "t1", err |-> NoErr]
    /\ gate = NoGate
    /\ instruments = <<<<METRIC_REQUEST_BYTES_TOTAL, TRUE>>>>
    /\ metrics = [NoMetrics EXCEPT !.request_bytes_total = 1]
    /\ spans = EndSpan(StartSpan(StartSpan(NoSpans, "ProxyRequest"), "modifyRequest"),
                       "modifyRequest")
    /\ calls = <<"checkTokenProvider", "GetAccessToken", "ServeHTTP", "modifyRequest">>
    /\ fault = FALSE

SpecHandleError == InitHandleError /\ [][RoundTripError]_vars

(***************************************************************************)
(* Vocabulary of the properties.                                           *)
(***************************************************************************)
Called(step) == \E i \in DOMAIN calls : calls[i] = step
Attempts(name) == Cardinality({i \in DOMAIN instruments : instruments[i][1] = name})
Acquired(name) ==
    Cardinality({i \in DOMAIN instruments : instruments[i] = <<name, TRUE>>})
Completed == pc = "done" /\ op = "ProxyRequest"
Dispatched == op = "ProxyRequest" /\ Called("modifyRequest")
Answered == backend # NoResponse

\* C1: while the token provider is absent, ProxyRequest and ReadinessCheck answer
\* 503 and the backend dispatch is never invoked.
C1_AbsentProviderAnswers503 ==
    (op # "none" /\ handler.tokenProvider = NilProvider)
        => (w.status = StatusServiceUnavailable /\ ~Called("ServeHTTP"))

\* C2: when the token provider is present and has only an empty token or an
\* error to give, checkTokenProvider returns an error and ProxyRequest answers
\* 503 without contacting the backend.
C2_UnusableTokenRejected ==
    (op = "ProxyRequest" /\ handler.tokenProvider = Provider
     /\ (Len(provider.token) = 0 \/ provider.err # NoErr))
        => (gate.err # NoErr /\ w.status = StatusServiceUnavailable
            /\ ~Called("ServeHTTP"))

\* C3: when the token provider is absent, checkTokenProvider returns an error
\* without calling GetAccessToken on it, and no panic follows.
C3_AbsentProviderFailsFast ==
    (op # "none" /\ handler.tokenProvider = NilProvider)
        => (gate.err # NoErr /\ ~gate.asked /\ ~gate.fault /\ ~fault)

C5_StatusSignalWritten ==
    (pc = "returned")
        => /\ Called("modifyResponse") # Called("handleError")
           /\ w.StatusCode # <<>>

\* C6 (as stated, for a Handler made by NewHandler): every exit of ProxyRequest
\* has recorded the request_duration_milliseconds sample exactly once.
C6_ExactlyOneDurationSample ==
    (Completed /\ handler.made = "NewHandler")
        => Len(metrics.request_duration_milliseconds) = 1

\* C6 (amended): an exit of ProxyRequest after the timer was started (a return
\* from the dispatch, or a panic during it) acquires the duration histogram
\* exactly once and records one sample if the acquisition succeeded, none if it
\* failed; an exit before it (in the gate) acquires and records nothing.
C6_OneDurationAcquisition ==
    Completed =>
        /\ Attempts(METRIC_REQUEST_DURATION_MILLISECONDS) =
               IF Called("ServeHTTP") THEN 1 ELSE 0
        /\ Len(metrics.request_duration_milliseconds) =
               Acquired(METRIC_REQUEST_DURATION_MILLISECONDS)

C6_Witness ==
    /\ Completed
    /\ fault
    /\ Called("ServeHTTP")
    /\ Len(metrics.request_duration_milliseconds) = 1

\* the override keys configured, and those among them that canonicalise to key c
OverrideKeys == DOMAIN handler.overrideHeaders.m
OverrideKeysFor(c) == {k \in OverrideKeys : CanonicalKey(k) = c}
UsableToken == Len(token.token) > 0 /\ token.err = NoErr

\* C7 (as stated): when the token provider returns a non-empty token and no
\* error, the dispatched request carries Authorization with exactly one value,
\* "Bearer " followed by that token.
C7_BearerExactlyOnce ==
    (Dispatched /\ UsableToken)
        => outreq.Header[HEADER_AUTHORIZATION] = <<"Bearer " \o token.token>>

\* C7 (amended): the same, unless a configured override header key canonicalises
\* to Authorization; then the header's one value is that override's value.
C7_BearerUnlessOverridden ==
    (Dispatched /\ UsableToken)
        => IF OverrideKeysFor(HEADER_AUTHORIZATION) = {}
           THEN outreq.Header[HEADER_AUTHORIZATION] = <<"Bearer " \o token.token>>
           ELSE \E k \in OverrideKeysFor(HEADER_AUTHORIZATION) :
                   outreq.Header[HEADER_AUTHORIZATION] = <<handler.overrideHeaders.m[k]>>

C7_Witness ==
    /\ pc = "dispatched"
    /\ UsableToken
    /\ Len(inbound.Header[HEADER_AUTHORIZATION]) = 2
    /\ outreq.Header[HEADER_AUTHORIZATION] = <<"Bearer t1">>

\* C8 (as stated): the dispatched request's header for every configured override
\* key equals the configured value; with no override headers configured, no
\* inbound header other than Authorization is changed.
C8_OverridesApplied ==
    Dispatched =>
        /\ \A k \in OverrideKeys :
              outreq.Header[CanonicalKey(k)] = <<handler.overrideHeaders.m[k]>>
        /\ handler.overrideHeaders.isNil =>
              \A c \in CanonKeys \ {HEADER_AUTHORIZATION} :
                  outreq.Header[c] = inbound.Header[c]

\* C8 (amended): the header for a configured override key has one value: the
\* configured value when no other configured key has the same canonical form,
\* and otherwise the value of one of the keys that share it; with no override
\* headers configured, no inbound header other than Authorization is changed.
C8_OverridesAppliedPerCanonicalKey ==
    Dispatched =>
        /\ \A k \in OverrideKeys :
              \E k2 \in OverrideKeysFor(CanonicalKey(k)) :
                  outreq.Header[CanonicalKey(k)] = <<handler.overrideHeaders.m[k2]>>
        /\ handler.overrideHeaders.isNil =>
              \A c \in CanonKeys \ {HEADER_AUTHORIZATION} :
                  outreq.Header[c] = inbound.Header[c]

C8_Witness ==
    /\ pc = "dispatched"
    /\ OverrideKeys = {"X-Scope-OrgID"}
    /\ inbound.Header[HeaderScope] = <<"tenant-in">>
    /\ outreq.Header[HeaderScope] = <<"tenant-a">>

\* C9: a backend response with status >= 400 is not a pipeline failure:
\* modifyResponse returns no error, handleError does not run, and the status
\* relayed to the caller is the backend's.
C9_BackendErrorRelayed ==
    (Answered /\ backend.StatusCode >= StatusBadRequest)
        => (~Called("handleError") /\ w.status = backend.StatusCode
            /\ w.err = NoErr)

C9_Witness ==
    /\ Completed
    /\ backend.StatusCode = 404
    /\ w.status = 404
    /\ Called("logResponse")

\* C10: when logResponse fails to decode or to re-encode the body, the response
\* is untouched: the bytes the caller will read and the Content-Length are the
\* backend's.
C10_CodecFailureLeavesResponse ==
    (Called(LogDecodeFailed) \/ Called(LogEncodeFailed))
        => /\ Remaining(res.Body) = backend.Body.data
           /\ res.ContentLength = backend.ContentLength
           /\ res.Header.ContentLength = backend.Header.ContentLength


\* what a body holds once decoded, read from its start
Content(encoding, data) == Decode(encoding, [data |-> data, pos |-> 0], 0).bytes
Restored == Called(LogErrorBody) /\ ~Called(LogEncodeFailed)

\* C11: for a backend response with status >= 400 whose body decodes and
\* re-encodes, after logResponse the restored body is unread and decodes to the
\* content of the original, Content-Encoding is the original encoding, and
\* response.ContentLength and the Content-Length header are the restored body's
\* length.
C11_RestoredBodyRoundTrip ==
    (Answered /\ backend.StatusCode >= StatusBadRequest /\ Restored)
        => /\ res.Body.pos = 0
           /\ Content(res.Header.ContentEncoding, res.Body.data) =
                  Content(backend.Header.ContentEncoding, backend.Body.data)
           /\ res.Header.ContentEncoding = backend.Header.ContentEncoding
           /\ res.ContentLength = Len(res.Body.data)
           /\ res.Header.ContentLength = Itoa(Len(res.Body.data))

\* a gzip body the backend framed otherwise than the re-encoder does: the
\* restored body and its Content-Length are shorter than the original
C11_Witness ==
    /\ Completed
    /\ backend.StatusCode = 500
    /\ backend.Header.ContentEncoding = "gzip"
    /\ Restored
    /\ res.ContentLength < backend.ContentLength
    /\ w.body = res.Body.data


\* C12: on a dispatch failure handleError answers with the uniform failure
\* response whose status is the integer parsed from the response writer's
\* Status-Code header, or 503 when the header is absent or unparsable, and the
\* requests_total sample it records carries that status code.
C12_StatusParsedOrUnavailable ==
    Called("handleError") =>
        /\ w.status = IF ParseInt(w.StatusCode).err = NoErr
                      THEN ParseInt(w.StatusCode).value
                      ELSE StatusServiceUnavailable
        /\ metrics.requests_total \in {<<>>, <<w.status>>}
        /\ Acquired(METRIC_REQUESTS_TOTAL) = Len(metrics.requests_total)
        /\ w.err = ErrDial

C12_Witness ==
    /\ Called("handleError")
    /\ w.StatusCode = <<5, 0, 2>>
    /\ w.status = 502
    /\ metrics.requests_total = <<502>>


\* C13 as stated: on a dispatch failure the uniform failure response produced
\* by handleError carries the "AuthenticationTokenNotFound" tag, the tag of
\* the gate-failure path of ProxyRequest and ReadinessCheck.
C13_DispatchFailureTaggedLikeGate ==
    Called("handleError") => w.tag = TagTokenNotFound

\* C13 amended: the tag handleError gives the uniform failure response is the
\* message of the dispatch error itself, the error it also passes as the
\* underlying error; it is not the gate-failure tag.
C13_DispatchFailureTaggedWithMessage ==
    Called("handleError") =>
        /\ w.tag = ErrDial
        /\ w.err = ErrDial
        /\ w.tag # TagTokenNotFound

C13_Witness ==
    /\ Completed
    /\ Called("handleError")
    /\ w.status = StatusServiceUnavailable
    /\ w.tag = ErrDial


\* the condition under which the Availability Gate is to fail: no provider, or
\* a provider with only an empty token or an error to give
GateMustFail ==
    \/ handler.tokenProvider = NilProvider
    \/ Len(provider.token) = 0
    \/ provider.err # NoErr

\* C14: on gate failure in ProxyRequest, the uniform failure response carries
\* status 503 and the error the Availability Gate returned, the one recorded on
\* the checkTokenProvider span, and not another error value or a nil error.
C14_GateFailureCarriesGateError ==
    (Completed /\ GateMustFail)
        => /\ w.status = StatusServiceUnavailable
           /\ gate.span
           /\ gate.err # NoErr
           /\ w.err = gate.err


\* what a step of the pipeline leaves for the caller and the backend, compared
\* with what it leaves under every other outcome of its instrument acquisitions
C15_Step ==
    /\ (pc = "idle" /\ op' = "ProxyRequest" /\ ~fault')
           => (pc' = "serving" /\ w' = NoWriter /\ instruments' = <<>>)
    /\ pc = "serving"
           => (pc' = "dispatched" /\ outreq' = modifyRequest(r, handler.targetHost)
               /\ UNCHANGED <<w, r, res, fault>>)
    /\ (pc = "dispatched" /\ backend' = NoResponse)
           => \A a \in BOOLEAN :
                 /\ w' = handleError(Hooked, ErrDial, a).w
                 /\ calls' = handleError(Hooked, ErrDial, a).calls
                 /\ UNCHANGED <<outreq, r, res, fault>>
    /\ (pc = "dispatched" /\ backend' # NoResponse)
           => \E consumed \in 0..Len(backend'.Body.data), encodeOk \in BOOLEAN :
              \A a \in BOOLEAN, b \in BOOLEAN :
                 LET got == modifyResponse(backend', Hooked, a, b, consumed, encodeOk)
                 IN  /\ got.err = NoErr
                     /\ res' = got.response
                     /\ calls' = got.st.calls
                     /\ w'.status = res'.StatusCode
                     /\ w'.body = Remaining(res'.Body)
                     /\ UNCHANGED <<outreq, r>>
    /\ pc = "returned"
           => UNCHANGED <<w, outreq, r, res, fault>>

C16_ReadinessOnlyGates ==
    op = "ReadinessCheck"
        => /\ IF GateMustFail
              THEN w.status = StatusServiceUnavailable /\ w.tag = TagTokenNotFound
              ELSE w.status = StatusOK /\ w.body = NoWriter.body
           /\ ~Called("ServeHTTP")
           /\ ~Called("modifyRequest")
           /\ r = inbound
           /\ outreq = NoRequest


Opened(n) == spans[n].started
Closed(n) == spans[n].ended

\* C17: every span the pipeline opens (ProxyRequest, ReadinessCheck,
\* checkTokenProvider, modifyRequest, handleError, modifyResponse) is closed
\* exactly once on every exit path of the operation that opened it, panics and
\* error paths included; none is open when the request completes.
C17_SpansClosedOnce ==
    /\ \A n \in SpanNames : Opened(n) <= 1 /\ Closed(n) <= Opened(n)
    /\ \A n \in SpanNames \ {"ProxyRequest"} : Closed(n) = Opened(n)
    /\ pc \in {"serving", "dispatched", "returned"}
           => (Opened("ProxyRequest") = 1 /\ Closed("ProxyRequest") = 0)
    /\ pc = "done" => \A n \in SpanNames : Closed(n) = Opened(n)
    /\ pc = "done" => Opened(op) = 1

C17_Witness ==
    /\ Completed
    /\ fault
    /\ Answered
    /\ \A n \in {"ProxyRequest", "modifyRequest", "modifyResponse"} :
           Opened(n) = 1 /\ Closed(n) = 1
    /\ Opened("handleError") = 0


Count(step) == Cardinality({i \in DOMAIN calls : calls[i] = step})
Interceptors == {"modifyResponse", "handleError"}
GateFailed == gate.fault \/ gate.err # NoErr

C19_BearerNeverEmpty ==
    Dispatched =>
        \A i \in DOMAIN outreq.Header[HEADER_AUTHORIZATION] :
            outreq.Header[HEADER_AUTHORIZATION][i] # "Bearer "


====
